---- MODULE Spec2Model ----
(***************************************************************************)
(* Model of backend/api/models.py: the Habit streak fields and the CheckIn *)
(* save path (full_clean -> streak trigger -> update_streak -> save).     *)
(* Time is measured in hours; a date is the number of whole days.          *)
(***************************************************************************)
EXTENDS Integers, Sequences, FiniteSets, TLC

\* ---------------------------------------------------------------- bounds
MaxDay == 2          \* Spec: the clock stops at the end of this day
MaxCheckIns == 2     \* Spec: primary keys the check-in table hands out
StreakDay == 3       \* SpecStreak, SpecConc: the day on which the requests arrive
MaxStreakCheckIns == 3 \* SpecStreak: primary keys the table hands out
MaxConcCheckIns == 2 \* SpecConc: primary keys the table hands out
MaxHabits == 3       \* SpecHabitClean, SpecHabitNames: Habit primary keys handed out
MaxUsers == 2        \* SpecHabitNames: owners
MaxHabitStreak == 2  \* SpecHabitClean: largest current_streak a saved Habit carries
MaxTwoCheckIns == 3  \* SpecTwo: primary keys the check-in table hands out

\* ------------------------------------------------------ program constants
HoursPerDay == 24
EditWindowHours == 48
MaxRating == 5

DailyMax == 7
WeeklyMax == 20
MonthlyMax == 31
DefaultTarget == 1
Percent == 100

NoPk == 0            \* self.pk is None
NullRating == 0      \* rating is NULL

VARIABLES
    checkins,   \* the CheckIn table of the habit: pk -> row
    nextPk,     \* next value of the auto-increment primary key
    habit,      \* the Habit row: current_streak, best_streak
    now,        \* timezone.now(), in hours
    proc,       \* per request: position inside CheckIn.save and its locals
    snap,       \* the tables when the running pair of requests started
    habits,     \* the Habit table: id -> row
    nextHabitId, \* next value of the Habit primary key
    checkinsOf, \* the CheckIn table by its habit foreign key: id -> pk -> row
    reply       \* what the last call of a read-only Habit method returned

vars == <<checkins, nextPk, habit, now, proc, snap,
          habits, nextHabitId, checkinsOf, reply>>

\* the tables of the specifications with more than one Habit row
habitSide == <<habits, nextHabitId, checkinsOf, reply>>

Procs == {1, 2}

\* ------------------------------------------------------------ validation
Today(t) == t \div HoursPerDay

\* variants of CheckIn.clean with one rule changed
CheckInClean_WindowInclusive(cs, req, t) ==
    IF req.date > t \div HoursPerDay
    THEN {"FutureCheckInDate"}
    ELSE IF req.pk # NoPk /\ t - cs[req.pk].created_at >= EditWindowHours
         THEN {"EditWindowExpired"}
         ELSE {}

CheckInClean_WholeDays(cs, req, t) ==
    IF req.date > t \div HoursPerDay
    THEN {"FutureCheckInDate"}
    ELSE IF req.pk # NoPk
            /\ (t - cs[req.pk].created_at) \div HoursPerDay > EditWindowHours \div HoursPerDay
         THEN {"EditWindowExpired"}
         ELSE {}

CheckInClean_TomorrowAllowed(cs, req, t) ==
    IF req.date > (t \div HoursPerDay) + 1
    THEN {"FutureCheckInDate"}
    ELSE IF req.pk # NoPk /\ t - cs[req.pk].created_at > EditWindowHours
         THEN {"EditWindowExpired"}
         ELSE {}

\* CheckIn.clean: the future-date rule, then the edit window for a stored row
CheckInClean(cs, req, t) ==
    IF req.date > Today(t)
    THEN {"FutureCheckInDate"}
    ELSE IF req.pk # NoPk /\ t - cs[req.pk].created_at > EditWindowHours
         THEN {"EditWindowExpired"}
         ELSE {}

\* variant: the constraint is looked at for a new row only
UniqueCheckinPerDay_CreateOnly(cs, req) ==
    IF req.pk = NoPk /\ \E k \in DOMAIN cs : cs[k].date = req.date
    THEN {"DuplicateCheckInDate"}
    ELSE {}

\* validate_constraints: unique_checkin_per_day, the row itself excluded
UniqueCheckinPerDay(cs, req) ==
    IF \E k \in DOMAIN cs : k # req.pk /\ cs[k].date = req.date
    THEN {"DuplicateCheckInDate"}
    ELSE {}

\* full_clean collects the errors of clean and of the constraint
FullClean(cs, req, t) ==
    CheckInClean(cs, req, t) \cup UniqueCheckinPerDay(cs, req)

\* ---------------------------------------------------------- streak engine
\* order_by("-date") over the rows S of cs, one list entry per row
RECURSIVE OrderByDateDesc(_, _)
OrderByDateDesc(cs, S) ==
    IF S = {} THEN <<>>
    ELSE LET k == CHOOSE k \in S : \A j \in S : cs[j].date <= cs[k].date
         IN <<cs[k].date>> \o OrderByDateDesc(cs, S \ {k})

\* habit.checkins.filter(done=True).order_by("-date"), as the list of dates
DoneDates(cs) == OrderByDateDesc(cs, {j \in DOMAIN cs : cs[j].done})

\* the for loop of update_streak; i is the 1-based index of dates[i]
RECURSIVE StreakWalk(_, _, _)
StreakWalk(dates, i, streak) ==
    IF i > Len(dates) THEN streak
    ELSE IF dates[i - 1] - dates[i] = 1
         THEN StreakWalk(dates, i + 1, streak + 1)
         ELSE streak

\* variant: the streak is the span of days from the oldest done date to the
\* newest, gaps included
CurrentStreakOf_Span(exists, dates) ==
    IF ~exists THEN 0 ELSE dates[1] - dates[Len(dates)] + 1

CurrentStreakOf(exists, dates) ==
    IF ~exists THEN 0 ELSE StreakWalk(dates, 2, 1)

\* variant: best_streak is never raised
BestStreakOf_Kept(current, best) == best

\* variant: best_streak follows current_streak down as well as up
BestStreakOf_Follows(current, best) == current

BestStreakOf(current, best) ==
    IF current > best THEN current ELSE best

\* update_streak on the rows the database holds when it runs
UpdateStreak(cs, h) ==
    LET dates == DoneDates(cs)
        current == CurrentStreakOf(dates # <<>>, dates)
    IN [current_streak |-> current,
        best_streak |-> BestStreakOf(current, h.best_streak)]

\* variants of the trigger in CheckIn.save
RunsUpdateStreak_OnCreate(cs, req) ==
    req.done /\ (req.pk = NoPk \/ ~cs[req.pk].done)

RunsUpdateStreak_AnyDoneEdit(cs, req) ==
    req.done /\ req.pk # NoPk

\* CheckIn.save: the streak is recomputed for an edit that turns done on
RunsUpdateStreak(cs, req) ==
    req.done /\ req.pk # NoPk /\ ~cs[req.pk].done

\* the row super().save() writes
StoredRow(cs, req, t) ==
    [date |-> req.date, done |-> req.done, rating |-> req.rating,
     observations |-> req.observations,
     created_at |-> IF req.pk = NoPk THEN t ELSE cs[req.pk].created_at]

\* variant: the trigger is evaluated without waiting for full_clean
StreakEngineRuns_Unvalidated(errors, cs, req) ==
    req.done /\ req.pk # NoPk /\ ~cs[req.pk].done

\* full_clean raises before anything else runs in save
StreakEngineRuns(errors, cs, req) ==
    errors = {} /\ RunsUpdateStreak(cs, req)

\* ------------------------------------------------------- the save handler
\* fail names the database write of the save that raises, if any
\* CheckIn.save as one unit: what the tables hold when it returns or raises
SaveOutcome(cs, h, np, req, t, fail) ==
    LET errors == FullClean(cs, req, t)
        runs == StreakEngineRuns(errors, cs, req)
        habitWritten == runs /\ fail # "habit.save"
        rowWritten == errors = {} /\ fail = "none"
        pk == IF req.pk = NoPk THEN np ELSE req.pk
    IN [errors |-> errors,
        ranStreak |-> runs,
        habit |-> IF habitWritten THEN UpdateStreak(cs, h) ELSE h,
        checkins |-> IF rowWritten
                     THEN [k \in DOMAIN cs \cup {pk} |->
                             IF k = pk THEN StoredRow(cs, req, t) ELSE cs[k]]
                     ELSE cs,
        nextPk |-> IF rowWritten /\ req.pk = NoPk THEN np + 1 ELSE np]

\* ------------------------------------------------------------------ inputs
OtherFields ==
    {[rating |-> NullRating, observations |-> ""],
     [rating |-> MaxRating, observations |-> "ok"]}

Request(pk, date, done, other) ==
    [pk |-> pk, date |-> date, done |-> done,
     rating |-> other.rating, observations |-> other.observations]

\* the database writes of a save that can raise
Failures(cs, req, t) ==
    LET errors == FullClean(cs, req, t) IN
    {"none"} \cup (IF errors = {} THEN {"super.save"} ELSE {})
             \cup (IF StreakEngineRuns(errors, cs, req) THEN {"habit.save"} ELSE {})

NoHabit == [current_streak |-> 0, best_streak |-> 0]

\* a request that is not inside save
Idle == [pc |-> "idle", req |-> Request(NoPk, 0, FALSE, [rating |-> NullRating, observations |-> ""]),
         habit |-> NoHabit]

NoSnap == [active |-> FALSE, checkins |-> <<>>, habit |-> NoHabit, nextPk |-> 1]

\* no read-only method has been called
NoReply == [fn |-> "none"]

Tables(t) ==
    /\ checkins = <<>>
    /\ nextPk = 1
    /\ habit = NoHabit
    /\ now = t
    /\ proc = [p \in Procs |-> Idle]
    /\ snap = NoSnap
    /\ habits = <<>>
    /\ nextHabitId = 1
    /\ checkinsOf = <<>>
    /\ reply = NoReply

Save(req, fail) ==
    LET out == SaveOutcome(checkins, habit, nextPk, req, now, fail) IN
    /\ checkins' = out.checkins
    /\ nextPk' = out.nextPk
    /\ habit' = out.habit
    /\ UNCHANGED <<now, proc, snap, habitSide>>

\* CheckIn(habit=..., ...).save() with no primary key yet
CreateIn(maxPk, dates, others, failing) ==
    /\ nextPk <= maxPk
    /\ \E d \in dates, done \in BOOLEAN, o \in others :
         LET req == Request(NoPk, d, done, o) IN
         \E fail \in IF failing THEN Failures(checkins, req, now) ELSE {"none"} :
            Save(req, fail)

\* save() of an instance loaded from the table
UpdateIn(dates, others, failing) ==
    \E pk \in DOMAIN checkins, d \in dates, done \in BOOLEAN, o \in others :
         LET req == Request(pk, d, done, o) IN
         \E fail \in IF failing THEN Failures(checkins, req, now) ELSE {"none"} :
            Save(req, fail)

\* variant: deleting a row runs the streak engine on the rows that remain
DeleteRow_Recomputes(pk) ==
    /\ checkins' = [k \in DOMAIN checkins \ {pk} |-> checkins[k]]
    /\ habit' = UpdateStreak(checkins', habit)
    /\ UNCHANGED <<nextPk, now, proc, snap, habitSide>>

\* variant: a row is deleted only inside its edit window
DeleteRow_InsideWindow(pk) ==
    /\ now - checkins[pk].created_at <= EditWindowHours
    /\ checkins' = [k \in DOMAIN checkins \ {pk} |-> checkins[k]]
    /\ UNCHANGED <<nextPk, habit, now, proc, snap, habitSide>>

\* CheckIn.delete(): models.Model.delete, no override; clean is not called
DeleteRow(pk) ==
    /\ checkins' = [k \in DOMAIN checkins \ {pk} |-> checkins[k]]
    /\ UNCHANGED <<nextPk, habit, now, proc, snap, habitSide>>

Delete == \E pk \in DOMAIN checkins : DeleteRow(pk)

\* the clock: sampled at the start of an edit window and one hour into it
Tick ==
    \E d \in {1, EditWindowHours - 1} :
        /\ (now + d) % EditWindowHours \in {0, 1}
        /\ Today(now + d) <= MaxDay
        /\ now' = now + d
        /\ UNCHANGED <<checkins, nextPk, habit, proc, snap, habitSide>>

\* ---- Spec: the whole save path, with the clock and failing writes
Init == Tables(0)

Create == CreateIn(MaxCheckIns, 0..(MaxDay + 1), OtherFields, TRUE)

Update == UpdateIn(0..(MaxDay + 1), OtherFields, TRUE)

Next == Create \/ Update \/ Delete \/ Tick

Spec == Init /\ [][Next]_vars

\* ---- SpecStreak: longer histories, all requests arriving on one day
StreakInit == Tables(StreakDay * HoursPerDay)

StreakOther == {[rating |-> NullRating, observations |-> ""]}

StreakCreate == CreateIn(MaxStreakCheckIns, 0..StreakDay, StreakOther, FALSE)

StreakUpdate == UpdateIn(0..StreakDay, StreakOther, FALSE)

StreakNext == StreakCreate \/ StreakUpdate \/ Delete

SpecStreak == StreakInit /\ [][StreakNext]_vars

\* ---- SpecConc: two requests inside CheckIn.save at the same time, each
\* ---- statement that touches the database being one step
ConcInit == Tables(StreakDay * HoursPerDay)

AllIdle == \A p \in Procs : proc[p].pc = "idle"

Finished(p) == proc[p].pc \in {"done", "raised"}

\* rows are put in the table one request at a time
ConcCreate ==
    /\ AllIdle
    /\ CreateIn(MaxConcCheckIns, 0..StreakDay, StreakOther, FALSE)

\* two requests call save() on instances loaded from the table
ConcStart ==
    /\ AllIdle
    /\ \E r \in [Procs -> {Request(pk, d, done, o) :
                             pk \in DOMAIN checkins, d \in 0..StreakDay,
                             done \in BOOLEAN, o \in StreakOther}] :
          /\ proc' = [p \in Procs |-> [pc |-> "full_clean", req |-> r[p], habit |-> NoHabit]]
          /\ snap' = [active |-> TRUE, checkins |-> checkins, habit |-> habit,
                      nextPk |-> nextPk]
    /\ UNCHANGED <<checkins, nextPk, habit, now, habitSide>>

Goto(p, pc) == proc' = [proc EXCEPT ![p].pc = pc]

\* save: self.full_clean()
ConcFullClean(p) ==
    /\ proc[p].pc = "full_clean"
    /\ Goto(p, IF FullClean(checkins, proc[p].req, now) = {} THEN "trigger" ELSE "raised")
    /\ UNCHANGED <<checkins, nextPk, habit, now, snap, habitSide>>

\* save: if self.done and self.pk: original = ...get(pk); if not original.done
ConcTrigger(p) ==
    /\ proc[p].pc = "trigger"
    /\ Goto(p, IF RunsUpdateStreak(checkins, proc[p].req) THEN "update_streak" ELSE "super_save")
    /\ UNCHANGED <<checkins, nextPk, habit, now, snap, habitSide>>

\* update_streak: habit = self.habit reads the Habit row
ConcLoadHabit(p) ==
    /\ proc[p].pc = "update_streak"
    /\ proc' = [proc EXCEPT ![p].pc = "exists", ![p].habit = habit]
    /\ UNCHANGED <<checkins, nextPk, habit, now, snap, habitSide>>

\* update_streak: if not checkins.exists(): habit.current_streak = 0
ConcExists(p) ==
    /\ proc[p].pc = "exists"
    /\ IF DoneDates(checkins) # <<>>
       THEN Goto(p, "dates")
       ELSE proc' = [proc EXCEPT
                ![p].pc = "habit_save",
                ![p].habit = [current_streak |-> CurrentStreakOf(FALSE, <<>>),
                              best_streak |-> BestStreakOf(CurrentStreakOf(FALSE, <<>>),
                                                           proc[p].habit.best_streak)]]
    /\ UNCHANGED <<checkins, nextPk, habit, now, snap, habitSide>>

\* update_streak: dates = [c.date for c in checkins], the walk, best_streak
ConcDates(p) ==
    /\ proc[p].pc = "dates"
    /\ LET current == CurrentStreakOf(TRUE, DoneDates(checkins)) IN
       proc' = [proc EXCEPT
                ![p].pc = "habit_save",
                ![p].habit = [current_streak |-> current,
                              best_streak |-> BestStreakOf(current, proc[p].habit.best_streak)]]
    /\ UNCHANGED <<checkins, nextPk, habit, now, snap, habitSide>>

\* update_streak: habit.save() writes both streak fields
ConcHabitSave(p) ==
    /\ proc[p].pc = "habit_save"
    /\ habit' = proc[p].habit
    /\ Goto(p, "super_save")
    /\ UNCHANGED <<checkins, nextPk, now, snap, habitSide>>

\* save: super().save(); the table enforces unique_checkin_per_day
ConcSuperSave(p) ==
    /\ proc[p].pc = "super_save"
    /\ IF UniqueCheckinPerDay(checkins, proc[p].req) # {}
       THEN Goto(p, "raised") /\ UNCHANGED checkins
       ELSE /\ Goto(p, "done")
            /\ checkins' = [checkins EXCEPT
                  ![proc[p].req.pk] = StoredRow(checkins, proc[p].req, now)]
    /\ UNCHANGED <<nextPk, habit, now, snap, habitSide>>

\* both requests have returned
ConcFinish ==
    /\ \A p \in Procs : Finished(p)
    /\ proc' = [p \in Procs |-> Idle]
    /\ snap' = NoSnap
    /\ UNCHANGED <<checkins, nextPk, habit, now, habitSide>>

ConcNext ==
    \/ ConcCreate
    \/ ConcStart
    \/ \E p \in Procs :
          \/ ConcFullClean(p)
          \/ ConcTrigger(p)
          \/ ConcLoadHabit(p)
          \/ ConcExists(p)
          \/ ConcDates(p)
          \/ ConcHabitSave(p)
          \/ ConcSuperSave(p)
    \/ ConcFinish

SpecConc == ConcInit /\ [][ConcNext]_vars

\* ------------------------------------------------------------ Habit rows
FrequencyChoices == {"daily", "weekly", "monthly"}

\* variant: the daily limit is read for every frequency
HabitClean_DailyLimitOnly(inst) ==
    IF inst.target_count > DailyMax THEN {"InvalidTargetCount"} ELSE {}

\* Habit.clean: the three limits, in the order of the code
HabitClean(inst) ==
    IF inst.frequency = "daily" /\ inst.target_count > DailyMax
    THEN {"InvalidTargetCount"}
    ELSE IF inst.frequency = "weekly" /\ inst.target_count > WeeklyMax
         THEN {"InvalidTargetCount"}
         ELSE IF inst.frequency = "monthly" /\ inst.target_count > MonthlyMax
              THEN {"InvalidTargetCount"}
              ELSE {}

\* variant: the comparison with target_count is made first
StreakStatus_TargetFirst(inst) ==
    IF inst.current_streak = inst.target_count
    THEN [status |-> "AtTarget", days |-> 0]
    ELSE IF inst.current_streak = 0
         THEN [status |-> "NotStarted", days |-> 0]
         ELSE [status |-> "InProgress", days |-> inst.current_streak]

\* Habit.get_streak_status: the message, and the day count it is built from
StreakStatus(inst) ==
    IF inst.current_streak = 0
    THEN [status |-> "NotStarted", days |-> 0]
    ELSE IF inst.current_streak = inst.target_count
         THEN [status |-> "AtTarget", days |-> 0]
         ELSE [status |-> "InProgress", days |-> inst.current_streak]

\* variant: a name is taken whoever owns the habit that has it
UniqueHabitName_AnyOwner(hs, id, inst) ==
    IF \E k \in DOMAIN hs : k # id /\ hs[k].name = inst.name
    THEN {"DuplicateHabitName"}
    ELSE {}

\* Habit.Meta: unique_habit_name on (user, name), the row itself excluded
UniqueHabitName(hs, id, inst) ==
    IF \E k \in DOMAIN hs :
          k # id /\ hs[k].user = inst.user /\ hs[k].name = inst.name
    THEN {"DuplicateHabitName"}
    ELSE {}

HabitRow(user, name, frequency, target, streak) ==
    [user |-> user, name |-> name, frequency |-> frequency,
     target_count |-> target, current_streak |-> streak, best_streak |-> streak]

\* Habit.save(): models.Model.save, no override; the table enforces the
\* constraint and clean is not called
HabitSaveOutcome(hs, nid, id, inst) ==
    LET errors == UniqueHabitName(hs, id, inst)
        key == IF id = NoPk THEN nid ELSE id
    IN [errors |-> errors,
        habits |-> IF errors = {}
                   THEN [k \in DOMAIN hs \cup {key} |->
                           IF k = key THEN inst ELSE hs[k]]
                   ELSE hs,
        nextHabitId |-> IF errors = {} /\ id = NoPk THEN nid + 1 ELSE nid]

checkinSide == <<checkins, habit, proc, snap>>

HabitSave(id, inst) ==
    LET out == HabitSaveOutcome(habits, nextHabitId, id, inst) IN
    /\ habits' = out.habits
    /\ nextHabitId' = out.nextHabitId
    /\ reply' = NoReply
    /\ UNCHANGED <<checkinsOf, nextPk, now, checkinSide>>

\* Habit(...).save() with no primary key yet; alone: the table holds no
\* other Habit
HabitCreateIn(alone, insts) ==
    /\ nextHabitId <= MaxHabits
    /\ alone => habits = <<>>
    /\ \E inst \in insts : HabitSave(NoPk, inst)

\* save() of a Habit loaded from the table
HabitUpdateIn(insts) ==
    \E id \in DOMAIN habits, inst \in insts : HabitSave(id, inst)

\* Habit.delete(): the check-ins of the habit go with it (on_delete=CASCADE)
HabitDelete ==
    \E id \in DOMAIN habits :
        /\ habits' = [k \in DOMAIN habits \ {id} |-> habits[k]]
        /\ checkinsOf' = [k \in DOMAIN checkinsOf \ {id} |-> checkinsOf[k]]
        /\ reply' = NoReply
        /\ UNCHANGED <<nextHabitId, nextPk, now, checkinSide>>

\* a call of clean() on a Habit loaded from the table
CleanHabit ==
    \E id \in DOMAIN habits :
        /\ reply' = [fn |-> "clean", id |-> id, value |-> HabitClean(habits[id])]
        /\ UNCHANGED <<habits, nextHabitId, checkinsOf, nextPk, now, checkinSide>>

\* a call of get_streak_status() on a Habit loaded from the table
GetStreakStatus ==
    \E id \in DOMAIN habits :
        /\ reply' = [fn |-> "get_streak_status", id |-> id,
                     value |-> StreakStatus(habits[id])]
        /\ UNCHANGED <<habits, nextHabitId, checkinsOf, nextPk, now, checkinSide>>

\* ---- SpecHabitClean: one Habit at a time, its fields over the limits of clean
TargetCounts ==
    {0, DefaultTarget}
        \cup {DailyMax, WeeklyMax, MonthlyMax}
        \cup {DailyMax + 1, WeeklyMax + 1, MonthlyMax + 1}

CleanInstances ==
    {HabitRow(1, "run", f, n, c) :
        f \in FrequencyChoices, n \in TargetCounts, c \in 0..MaxHabitStreak}

HabitCleanInit == Tables(0)

HabitCleanCreate == HabitCreateIn(TRUE, CleanInstances)

HabitCleanUpdate == HabitUpdateIn(CleanInstances)

HabitCleanNext ==
    HabitCleanCreate \/ HabitCleanUpdate \/ HabitDelete \/ CleanHabit \/ GetStreakStatus

SpecHabitClean == HabitCleanInit /\ [][HabitCleanNext]_vars

\* ---- SpecHabitNames: habits of several owners, named from a small set
HabitNames == {"run", "read", "walk"}

NamesInstances ==
    {HabitRow(u, n, "daily", DefaultTarget, 0) : u \in 1..MaxUsers, n \in HabitNames}

HabitNamesInit == Tables(0)

HabitNamesCreate == HabitCreateIn(FALSE, NamesInstances)

HabitNamesUpdate == HabitUpdateIn(NamesInstances)

HabitNamesNext == HabitNamesCreate \/ HabitNamesUpdate \/ HabitDelete

SpecHabitNames == HabitNamesInit /\ [][HabitNamesNext]_vars

\* ------------------------------------------- check-ins of several habits
\* every row of the CheckIn table, whatever its habit
AllCheckins(co) ==
    LET pks == UNION {DOMAIN co[h] : h \in DOMAIN co} IN
    [pk \in pks |-> co[CHOOSE h \in DOMAIN co : pk \in DOMAIN co[h]][pk]]

\* variant: the related manager does not filter by habit
HabitCheckins_AllRows(co, h) == AllCheckins(co)

\* habit.checkins: the rows whose foreign key is the habit
HabitCheckins(co, h) == IF h \in DOMAIN co THEN co[h] ELSE <<>>

DoneCount(cs) == Cardinality({k \in DOMAIN cs : cs[k].done})

\* variant: the counts are taken over the whole CheckIn table
SuccessRate_AllHabits(co, h) ==
    LET cs == AllCheckins(co)
        total_checkins == Cardinality(DOMAIN cs)
    IN IF total_checkins = 0
       THEN [num |-> 0, den |-> 1]
       ELSE [num |-> DoneCount(cs) * Percent, den |-> total_checkins]

\* Habit.success_rate: the float it returns, as the fraction num / den
SuccessRate(co, h) ==
    LET cs == HabitCheckins(co, h)
        total_checkins == Cardinality(DOMAIN cs)
    IN IF total_checkins = 0
       THEN [num |-> 0, den |-> 1]
       ELSE [num |-> DoneCount(cs) * Percent, den |-> total_checkins]

StreakFields(row) ==
    [current_streak |-> row.current_streak, best_streak |-> row.best_streak]

\* CheckIn.save for a check-in of habit h
HabitCheckInSave(h, req) ==
    LET cs == HabitCheckins(checkinsOf, h)
        out == SaveOutcome(cs, StreakFields(habits[h]), nextPk, req, now, "none")
        pk == IF req.pk = NoPk THEN nextPk ELSE req.pk
        own == IF h \in DOMAIN checkinsOf THEN checkinsOf[h] ELSE <<>>
        stored == IF out.errors = {}
                  THEN [k \in DOMAIN own \cup {pk} |->
                          IF k = pk THEN out.checkins[pk] ELSE own[k]]
                  ELSE own
    IN /\ checkinsOf' = [k \in DOMAIN checkinsOf \cup {h} |->
                            IF k = h THEN stored ELSE checkinsOf[k]]
       /\ habits' = [habits EXCEPT
                        ![h].current_streak = out.habit.current_streak,
                        ![h].best_streak = out.habit.best_streak]
       /\ nextPk' = out.nextPk
       /\ reply' = NoReply
       /\ UNCHANGED <<nextHabitId, now, checkinSide>>

\* a call of success_rate() on a Habit loaded from the table
SuccessRateCall ==
    \E h \in DOMAIN habits :
        /\ reply' = [fn |-> "success_rate", id |-> h,
                     value |-> SuccessRate(checkinsOf, h)]
        /\ UNCHANGED <<habits, nextHabitId, checkinsOf, nextPk, now, checkinSide>>

\* ---- SpecTwo: the habits of one owner and their check-ins for yesterday
\* ---- and today
TwoInit == Tables(HoursPerDay)

TwoDates == {Today(now) - 1, Today(now)}

TwoInstances ==
    {HabitRow(1, n, "daily", DefaultTarget, 0) : n \in {"run", "read"}}

TwoHabitCreate == HabitCreateIn(FALSE, TwoInstances)

TwoCreate ==
    /\ nextPk <= MaxTwoCheckIns
    /\ \E h \in DOMAIN habits, d \in TwoDates, done \in BOOLEAN, o \in StreakOther :
          HabitCheckInSave(h, Request(NoPk, d, done, o))

TwoUpdate ==
    \E h \in DOMAIN habits :
       \E pk \in DOMAIN HabitCheckins(checkinsOf, h), d \in TwoDates,
          done \in BOOLEAN, o \in StreakOther :
            HabitCheckInSave(h, Request(pk, d, done, o))

TwoDelete ==
    \E h \in DOMAIN checkinsOf :
       \E pk \in DOMAIN checkinsOf[h] :
          /\ checkinsOf' = [checkinsOf EXCEPT
                               ![h] = [k \in DOMAIN checkinsOf[h] \ {pk} |->
                                          checkinsOf[h][k]]]
          /\ reply' = NoReply
          /\ UNCHANGED <<habits, nextHabitId, nextPk, now, checkinSide>>

TwoNext ==
    TwoHabitCreate \/ TwoCreate \/ TwoUpdate \/ TwoDelete \/ SuccessRateCall

SpecTwo == TwoInit /\ [][TwoNext]_vars

\* ================================================================ claims
DoneDateSet(cs) == {cs[k].date : k \in {j \in DOMAIN cs : cs[j].done}}

SetMax(S) == CHOOSE m \in S : \A x \in S : x <= m

\* number of consecutive calendar days with a done check-in that end at the
\* most recent done date
ConsecutiveRun(S) ==
    IF S = {} THEN 0
    ELSE LET m == SetMax(S) IN
         Cardinality({d \in S : \A e \in d..m : e \in S})

\* rows that exist before and after a step, rows the step inserted
Kept == DOMAIN checkins \cap DOMAIN checkins'

Inserted == DOMAIN checkins' \ DOMAIN checkins

\* no row was ever deleted
NothingDeleted == Cardinality(DOMAIN checkins) = nextPk - 1

\* every save request that can be made in the current state
SaveRequests ==
    {Request(pk, d, done, o) :
        pk \in DOMAIN checkins \cup {NoPk}, d \in 0..(MaxDay + 1),
        done \in BOOLEAN, o \in OtherFields}

Elapsed(pk) == now - checkins[pk].created_at

\* C1: a step that takes a stored check-in from done = false to done = true
\* leaves current_streak equal to the run of consecutive done days ending at
\* the most recent done date, the check-in just made done included.
C1_StreakCountsTheNewDone ==
    [][\A pk \in Kept :
          (~checkins[pk].done /\ checkins'[pk].done)
              => habit'.current_streak = ConsecutiveRun(DoneDateSet(checkins'))]_vars

\* C2: best_streak >= current_streak in every state reachable by check-in
\* creates, updates and deletes from current_streak = best_streak = 0.
C2_BestAtLeastCurrent == habit.best_streak >= habit.current_streak

\* a recomputation lowered current_streak below an earlier best
C2_Witness ==
    /\ habit.current_streak = 1
    /\ habit.best_streak = 2

\* C3 as claimed: a step that inserts a check-in with done = true runs the
\* streak recomputation, the new check-in counted, and stores its result.
C3_CreateDoneRecomputes ==
    [][\A pk \in Inserted :
          checkins'[pk].done => habit' = UpdateStreak(checkins', habit)]_vars

\* C3 as amended: a step that inserts a check-in, done or not, leaves
\* current_streak and best_streak unchanged.
C3_CreateLeavesStreak ==
    [][Inserted # {} => habit' = habit]_vars

\* two done check-ins and no recomputation has ever counted one: the one
\* that became done last was inserted with done = true
C3_Witness ==
    /\ NothingDeleted
    /\ Cardinality(DoneDateSet(checkins)) >= 2
    /\ habit.best_streak = 0

\* C4: a step that rewrites a stored check-in with done going true->true,
\* false->false or true->false leaves current_streak and best_streak
\* unchanged, whatever else (date, rating, observations) it changes.
C4_OtherTransitionsKeepStreak ==
    [][\A pk \in Kept :
          (checkins'[pk] # checkins[pk] /\ (checkins[pk].done \/ ~checkins'[pk].done))
              => habit' = habit]_vars

\* a streak was counted from done check-ins that were all edited to
\* done = false afterwards, one of them with its rating edited too
C4_Witness ==
    /\ NothingDeleted
    /\ DoneDateSet(checkins) = {}
    /\ habit.current_streak >= 1
    /\ \E pk \in DOMAIN checkins : checkins[pk].rating = MaxRating

C6_ImmutableAfterWindow ==
    [][\A pk \in Kept :
          Elapsed(pk) > EditWindowHours => checkins'[pk] = checkins[pk]]_vars

\* a check-in one hour past its window, for which an update is rejected
\* for the window alone
C6_Witness ==
    \E pk \in DOMAIN checkins :
        /\ Elapsed(pk) = EditWindowHours + 1
        /\ \E req \in SaveRequests :
              req.pk = pk /\ FullClean(checkins, req, now) = {"EditWindowExpired"}

\* C7: in every state, a save that full_clean rejects (future date, expired
\* edit window, duplicate date) returns with the check-in table and the
\* habit's streaks as they were.
C7_RejectedChangesNothing ==
    \A req \in SaveRequests :
        FullClean(checkins, req, now) # {} =>
            \A fail \in Failures(checkins, req, now) :
                LET out == SaveOutcome(checkins, habit, nextPk, req, now, fail) IN
                out.checkins = checkins /\ out.habit = habit /\ out.nextPk = nextPk

\* a rejected update asks for done going false -> true in a state where the
\* recomputation would have changed the streak; one for each kind of error
C7_Witness ==
    \A kind \in {"FutureCheckInDate", "EditWindowExpired", "DuplicateCheckInDate"} :
        \E req \in SaveRequests :
            /\ req.pk # NoPk
            /\ kind \in FullClean(checkins, req, now)
            /\ RunsUpdateStreak(checkins, req)
            /\ UpdateStreak(checkins, habit) # habit

\* C8: every stored check-in has date <= today, and a create or an update
\* is rejected for its date exactly when the date is after today.
C8_NoFutureDates ==
    /\ \A pk \in DOMAIN checkins : checkins[pk].date <= Today(now)
    /\ \A req \in SaveRequests :
          "FutureCheckInDate" \in FullClean(checkins, req, now) <=> req.date > Today(now)

\* a check-in stored today, after day 0, and dated today
C8_Witness ==
    \E pk \in DOMAIN checkins :
        /\ Today(now) > 0
        /\ checkins[pk].created_at = now
        /\ checkins[pk].date = Today(now)

\* C9: the habit's streak fields change only in a step that also persists
\* the done transition of a check-in; a save that fails leaves them as they
\* were before the call.
C9_FailedSaveKeepsStreak ==
    [][habit' # habit =>
          \E pk \in Kept : ~checkins[pk].done /\ checkins'[pk].done]_vars

\* the habit row after the two saves run one after the other
SerialHabit(first, second) ==
    LET a == SaveOutcome(snap.checkins, snap.habit, snap.nextPk, first, now, "none")
        b == SaveOutcome(a.checkins, a.habit, a.nextPk, second, now, "none")
    IN b.habit

\* C10: when two saves for the same habit have run concurrently, the
\* habit's streak fields are those one of the two serial orders produces.
C10_SerialOutcome ==
    (snap.active /\ \A p \in Procs : Finished(p))
        => habit \in {SerialHabit(proc[1].req, proc[2].req),
                      SerialHabit(proc[2].req, proc[1].req)}

\* C11: no step of a check-in create, update or delete lowers the habit's
\* best_streak.
C11_BestStreakNeverLowered ==
    [][habit'.best_streak >= habit.best_streak]_vars

\* a recomputation has brought current_streak down to 0 under a best of 2
C11_Witness ==
    habit.best_streak = 2 /\ habit.current_streak = 0

\* a save request whose date is the date of another stored row
Collides(req) ==
    \E k \in DOMAIN checkins \ {req.pk} : checkins[k].date = req.date

\* C12: no two stored check-ins of the habit have the same date; a create or
\* an update whose date is that of another stored row is rejected with
\* DuplicateCheckInDate and stores nothing; consecutive dates of the streak
\* walk are at least one day apart.
C12_OneCheckInPerDate ==
    /\ \A j, k \in DOMAIN checkins :
          j # k => checkins[j].date # checkins[k].date
    /\ \A req \in SaveRequests :
          Collides(req) =>
             /\ "DuplicateCheckInDate" \in FullClean(checkins, req, now)
             /\ \A fail \in Failures(checkins, req, now) :
                   SaveOutcome(checkins, habit, nextPk, req, now, fail).checkins
                       = checkins
    /\ LET dates == DoneDates(checkins) IN
       \A i \in 2..Len(dates) : dates[i - 1] - dates[i] >= 1

\* two done rows are stored; a create and a date-changing update that collide
\* are each rejected for the collision alone
C12_Witness ==
    /\ Len(DoneDates(checkins)) = 2
    /\ \E req \in SaveRequests :
          req.pk = NoPk /\ FullClean(checkins, req, now) = {"DuplicateCheckInDate"}
    /\ \E req \in SaveRequests :
          /\ req.pk # NoPk
          /\ req.date # checkins[req.pk].date
          /\ FullClean(checkins, req, now) = {"DuplicateCheckInDate"}

\* C13: every stored check-in can be deleted, whatever its age, and a step
\* that deletes a check-in leaves current_streak, best_streak and the other
\* rows as they were.
C13_DeleteKeepsStreak ==
    /\ [](\A pk \in DOMAIN checkins : ENABLED DeleteRow(pk))
    /\ [][DOMAIN checkins' # DOMAIN checkins /\ Inserted = {}
            => /\ habit' = habit
               /\ \A k \in Kept : checkins'[k] = checkins[k]]_vars

\* a row has already been deleted, and a done row past its edit window is
\* stored whose deletion leaves current_streak above the run that remains
C13_Witness ==
    /\ ~NothingDeleted
    /\ habit.current_streak >= 1
    /\ \E pk \in DOMAIN checkins :
          /\ Elapsed(pk) > EditWindowHours
          /\ checkins[pk].done
          /\ ENABLED (/\ DeleteRow(pk)
                      /\ habit'.current_streak
                            > ConsecutiveRun(DoneDateSet(checkins')))

\* the rule of the documentation: the limit of the habit's own frequency
OverLimit(inst) ==
    \/ inst.frequency = "daily" /\ inst.target_count > DailyMax
    \/ inst.frequency = "weekly" /\ inst.target_count > WeeklyMax
    \/ inst.frequency = "monthly" /\ inst.target_count > MonthlyMax

\* C14: validation of a habit reports an error exactly when target_count is
\* above the limit of the habit's frequency (daily 7, weekly 20, monthly 31),
\* and the error is InvalidTargetCount.
C14_CleanRejectsOverLimit ==
    reply.fn = "clean" =>
        /\ reply.value # {} <=> OverLimit(habits[reply.id])
        /\ reply.value \subseteq {"InvalidTargetCount"}

\* a daily habit with target_count 8 has just been rejected
C14_Witness ==
    /\ reply.fn = "clean"
    /\ habits[reply.id].frequency = "daily"
    /\ habits[reply.id].target_count = DailyMax + 1
    /\ reply.value = {"InvalidTargetCount"}

\* a weekly habit with target_count 8 has just been accepted
C14_WitnessAccepted ==
    /\ reply.fn = "clean"
    /\ habits[reply.id].frequency = "weekly"
    /\ habits[reply.id].target_count = DailyMax + 1
    /\ reply.value = {}

\* the rows of the CheckIn table whose habit is h
RowsOf(h) == IF h \in DOMAIN checkinsOf THEN checkinsOf[h] ELSE <<>>

\* C15: success_rate of a habit is 0 when the habit has no check-in and
\* otherwise (its done check-ins / its check-ins) * 100, a value in [0, 100];
\* only the habit's own check-ins are counted, and the call changes no table.
C15_SuccessRate ==
    /\ [](reply.fn = "success_rate" =>
            LET total == Cardinality(DOMAIN RowsOf(reply.id))
                done == DoneCount(RowsOf(reply.id))
                rate == reply.value
            IN /\ rate.den > 0
               /\ total = 0 => rate.num = 0
               /\ total > 0 => rate.num * total = done * 100 * rate.den
               /\ 0 <= rate.num /\ rate.num <= 100 * rate.den)
    /\ [][reply' # reply /\ reply'.fn = "success_rate"
            => UNCHANGED <<habits, nextHabitId, checkinsOf, nextPk>>]_vars

\* a rate of one half, for a habit that is not the only one with check-ins
C15_Witness ==
    /\ reply.fn = "success_rate"
    /\ reply.value.num * 2 = 100 * reply.value.den
    /\ \E h \in DOMAIN habits \ {reply.id} : DOMAIN RowsOf(h) # {}

\* C16: for every pair (current_streak, target_count), streak_status is
\* AtTarget exactly when current_streak = target_count, NotStarted when
\* current_streak = 0 and target_count > 0, and InProgress carrying
\* current_streak otherwise.
C16_StatusByPair ==
    reply.fn = "get_streak_status" =>
        LET h == habits[reply.id]
            atTarget == h.current_streak = h.target_count
            notStarted == h.current_streak = 0 /\ h.target_count > 0
        IN /\ reply.value.status = "AtTarget" <=> atTarget
           /\ notStarted => reply.value.status = "NotStarted"
           /\ (~atTarget /\ ~notStarted)
                 => reply.value = [status |-> "InProgress", days |-> h.current_streak]

\* C16, amended: streak_status is NotStarted exactly when current_streak = 0,
\* whatever target_count is; AtTarget exactly when current_streak is not 0 and
\* equals target_count; InProgress carrying current_streak otherwise.
C16_StatusNotStartedFirst ==
    reply.fn = "get_streak_status" =>
        LET h == habits[reply.id] IN
        /\ reply.value.status = "NotStarted" <=> h.current_streak = 0
        /\ reply.value.status = "AtTarget"
              <=> (h.current_streak # 0 /\ h.current_streak = h.target_count)
        /\ (h.current_streak # 0 /\ h.current_streak # h.target_count)
              => reply.value = [status |-> "InProgress", days |-> h.current_streak]

\* the status of a habit with current_streak = target_count = 0 was asked for
C16_Witness ==
    /\ reply.fn = "get_streak_status"
    /\ habits[reply.id].current_streak = 0
    /\ habits[reply.id].target_count = 0
    /\ reply.value.status = "NotStarted"

NameTaken(id, inst) ==
    \E k \in DOMAIN habits \ {id} :
        habits[k].user = inst.user /\ habits[k].name = inst.name

\* C18: no two stored habits have the same owner and the same name; creating
\* a habit is rejected, and stores nothing, exactly when a stored habit of the
\* same owner has the name, so a name used by another owner is accepted.
C18_UniqueHabitNames ==
    /\ \A j, k \in DOMAIN habits :
          j # k => (habits[j].user # habits[k].user \/ habits[j].name # habits[k].name)
    /\ \A inst \in NamesInstances :
          LET out == HabitSaveOutcome(habits, nextHabitId, NoPk, inst) IN
          IF NameTaken(NoPk, inst)
          THEN out.errors = {"DuplicateHabitName"} /\ out.habits = habits
          ELSE /\ out.errors = {}
               /\ DOMAIN out.habits = DOMAIN habits \cup {nextHabitId}
               /\ out.habits[nextHabitId] = inst

\* two owners each have a habit of the same name, and one of them is refused
\* a second habit of that name
C18_Witness ==
    \E j, k \in DOMAIN habits :
        /\ habits[j].user # habits[k].user
        /\ habits[j].name = habits[k].name
        /\ HabitSaveOutcome(habits, nextHabitId, NoPk, habits[j]).errors
              = {"DuplicateHabitName"}

\* C19: a step that takes a stored check-in from done = false to done = true
\* leaves current_streak at 1 or more, also when that check-in is the only
\* done check-in of the habit.
C19_RecomputedStreakAtLeastOne ==
    [][\A pk \in Kept :
          (~checkins[pk].done /\ checkins'[pk].done)
              => habit'.current_streak >= 1]_vars

\* C20: in every reachable state current_streak is at most the number of
\* stored check-ins of the habit with done = true.
C20_StreakAtMostDoneCount ==
    habit.current_streak <= DoneCount(checkins)

\* C20, amended: right after a save that takes a check-in from done = false
\* to done = true, current_streak is at most the number of stored check-ins
\* with done = true.
C20_RecomputedStreakAtMostDoneCount ==
    [][\A pk \in Kept :
          (~checkins[pk].done /\ checkins'[pk].done)
              => habit'.current_streak <= DoneCount(checkins')]_vars

\* three done check-ins are stored, none was deleted, and the last
\* recomputation counted two of them
C20_Witness ==
    /\ NothingDeleted
    /\ DoneCount(checkins) = 3
    /\ habit.current_streak = 2

====
